---- MODULE Spec2Model ----
(***************************************************************************)
(* Model of backend/server.py: the upload handler (upload_photo), the      *)
(* provider selection (restore_photo_with_ai), the two provider adapters,  *)
(* the Job Store / Blob Store they write, and the read handlers            *)
(* (get_restoration_status, download_restored_photo, get_restorations).    *)
(*                                                                         *)
(* Specifications.  Spec follows the uploads alone, under every            *)
(* environment.  StatusSpec adds status polling, DownloadSpec adds         *)
(* downloads and the loss of files from STORAGE_DIR, and DisconnectSpec    *)
(* adds callers that go away, all for one deployment.  The read handlers   *)
(* only read, so one polling client per id and one download at a time      *)
(* stand for any number of them.  ListSpec runs the list endpoint on Job   *)
(* Stores filled by earlier uploads, and ExtractSpec runs the two          *)
(* extractors on provider documents.  LiveSpec states the fairness of the  *)
(* handlers' own steps and the primary adapter's timeout, CrashSpec lets   *)
(* the server process die at any point, and ClassifySpec lets the          *)
(* fallback provider's SDK raise exceptions of many texts.                 *)
(*                                                                         *)
(* Scheduling.  Every handler is an asyncio coroutine on one event loop.   *)
(* A handler can be interleaved with others only where it awaits the Job   *)
(* Store (insert_one / update_one); requests.post and the SDK call are     *)
(* synchronous, so while a handler is in its provider call (pc "calling")  *)
(* no other handler takes a step.                                          *)
(*                                                                         *)
(* Text.  A Python str is a sequence of fragments; concatenation and       *)
(* f-strings are \o, and "x in s" is membership of a fragment.             *)
(***************************************************************************)
EXTENDS Integers, Sequences, FiniteSets, TLC

\* ------------------------------------------------------------------ bounds

\* Number of upload requests the model follows (each one POST /api/upload).
MaxUploads == 1

Uploads == 1..MaxUploads

\* ------------------------------------------------------- Python values

\* Python's None for str-typed optionals (keys, content type, filename).
None == "<None>"

\* Optional[float] / Optional[str] fields of PhotoRestoration: <<>> is None.
Unset == <<>>
Set(x) == <<x>>
IsSet(o) == o # Unset

\* bool(s) of an optional string: None and "" are falsy.
Truthy(s) == s # None /\ s # ""

\* Python's "a or b".
Or(a, b) == IF Truthy(a) THEN a ELSE b

\* ------------------------------------------------------------ constants

\* len(image_data) < 100 is rejected.
MinSize == 100

\* len(image_data) > 10 * 1024 * 1024 is rejected.
MaxSize == 10485760

\* ------------------------------------------------------------ exceptions

\* fastapi.HTTPException(status_code, detail); detail is a text.
HTTPException(status_code, detail) ==
    [type |-> "HTTPException", status_code |-> status_code, detail |-> detail]

\* Any other exception class, with the text of str(e).
PyException(type, text) ==
    [type |-> type, status_code |-> 0, detail |-> text]

\* str(e): starlette's HTTPException prints "<status_code>: <detail>", any
\* other exception prints its message.
Str(e) ==
    IF e.type = "HTTPException"
    THEN <<ToString(e.status_code), ": ">> \o e.detail
    ELSE e.detail

\* What a call hands back to its caller: a value, or a raised exception.
Returned(v) == [ok |-> TRUE, value |-> v, exc |-> PyException("", <<>>)]
Raised(e) == [ok |-> FALSE, value |-> <<>>, exc |-> e]

\* ------------------------------------------------------------- base64

\* A base64 text is a sequence of characters: 0..63 are the alphabet's
\* sextets, Pad is "=".
Pad == 64

\* binascii.a2b_base64 (non-strict), as base64.b64decode(s) runs it: a pad
\* that completes a quad ends the input, any other pad is skipped, and a
\* quad left open at the end of the input is an error.
\* st = [q |-> quad_pos, left |-> leftchar, pads |-> pads, out |-> bytes].
RECURSIVE A2bBase64(_, _, _)
A2bBase64(s, i, st) ==
    IF i > Len(s)
    THEN IF st.q # 0 THEN Raised(PyException("binascii.Error", <<"Incorrect padding">>))
         ELSE Returned(st.out)
    ELSE IF s[i] = Pad
    THEN IF st.q >= 2 /\ st.q + st.pads + 1 >= 4
         THEN Returned(st.out)
         ELSE A2bBase64(s, i + 1,
                  [st EXCEPT !.pads = IF st.q >= 2 THEN st.pads + 1 ELSE st.pads])
    ELSE CASE st.q = 0 ->
                A2bBase64(s, i + 1, [q |-> 1, left |-> s[i], pads |-> 0, out |-> st.out])
           [] st.q = 1 ->
                A2bBase64(s, i + 1,
                    [q |-> 2, left |-> s[i] % 16, pads |-> 0,
                     out |-> Append(st.out, st.left * 4 + s[i] \div 16)])
           [] st.q = 2 ->
                A2bBase64(s, i + 1,
                    [q |-> 3, left |-> s[i] % 4, pads |-> 0,
                     out |-> Append(st.out, st.left * 16 + s[i] \div 4)])
           [] st.q = 3 ->
                A2bBase64(s, i + 1,
                    [q |-> 0, left |-> 0, pads |-> 0,
                     out |-> Append(st.out, st.left * 64 + s[i])])

b64decode(s) == A2bBase64(s, 1, [q |-> 0, left |-> 0, pads |-> 0, out |-> <<>>])

\* Truthiness of an Optional[bytes]: None and b"" are falsy.
TruthyBytes(o) == IsSet(o) /\ o[1] # <<>>

\* --------------------------------------------- primary adapter (OpenRouter)

\* The provider's answer to requests.post:
\*   kind "transport": requests raised a RequestException (text = str(e));
\*   kind "http": a response with status_code, text and, for JSON, json.
\* json = [choices |-> Unset or Set(list of contents)]; a content is
\*   [kind |-> "missing" | "null" | "str" | "list", body |-> sequence]:
\*   a str body is a sequence of segments [uri, b64] (uri: the segment is
\*   "data:image/<subtype>;base64," followed by the characters b64), a list
\*   body is a sequence of parts [type, data, fields] (data: the url starts
\*   with "data:image/"; fields: url.split(",")[1:] as base64 texts).
NoJson == [choices |-> Unset]

TransportError(text) ==
    [kind |-> "transport", status_code |-> 0, text |-> text, json |-> NoJson]

HttpReply(status_code, text, json) ==
    [kind |-> "http", status_code |-> status_code, text |-> text, json |-> json]

\* re.findall(r'data:image/[^;]+;base64,([A-Za-z0-9+/=]+)', content): the
\* payloads of the data-URIs of the text, in order; an empty payload is no match.
RECURSIVE FindAll(_)
FindAll(text) ==
    IF text = <<>> THEN <<>>
    ELSE IF Head(text).uri /\ Head(text).b64 # <<>>
         THEN <<Head(text).b64>> \o FindAll(Tail(text))
         ELSE FindAll(Tail(text))

\* The loop over a content list: the first image_url part whose url starts
\* with "data:image/" and whose split(",")[1] decodes; a part that fails
\* (IndexError, binascii.Error) is logged and the loop goes on.
RECURSIVE ScanParts(_)
ScanParts(parts) ==
    IF parts = <<>> THEN Unset
    ELSE LET item == Head(parts)
             ok == /\ item.type = "image_url"
                   /\ item.data
                   /\ item.fields # <<>>
                   /\ b64decode(item.fields[1]).ok
         IN IF ok THEN Set(b64decode(item.fields[1]).value)
            ELSE ScanParts(Tail(parts))

\* The extractor taking the last data-URI of the text instead of the first.
ExtractOpenRouterLastMatch(result) ==
    IF ~IsSet(result.choices) \/ result.choices[1] = <<>> THEN Unset
    ELSE LET content == result.choices[1][1]
         IN CASE content.kind \in {"str", "missing"} ->
                     LET matches == FindAll(content.body)
                     IN IF matches = <<>> THEN Unset
                        ELSE IF b64decode(matches[Len(matches)]).ok
                             THEN Set(b64decode(matches[Len(matches)]).value)
                             ELSE Unset
              [] content.kind = "list" -> ScanParts(content.body)
              [] OTHER -> Unset

\* _extract_generated_image_from_openrouter_response(result) -> Optional[bytes]
ExtractOpenRouter(result) ==
    IF ~IsSet(result.choices) \/ result.choices[1] = <<>> THEN Unset
    ELSE LET content == result.choices[1][1]
         IN CASE content.kind \in {"str", "missing"} ->
                     LET matches == FindAll(content.body)
                     IN IF matches = <<>> THEN Unset
                        ELSE IF b64decode(matches[1]).ok
                             THEN Set(b64decode(matches[1]).value)
                             ELSE Unset
              [] content.kind = "list" -> ScanParts(content.body)
              [] OTHER -> Unset

QuotaDetail == <<"OpenRouter API quota exceeded. Please check your OpenRouter account.">>
InvalidKeyDetail == <<"Invalid OpenRouter API key. Please check your API key.">>
NoImageDetail == <<"The AI model did not generate a restored image. Please try again.">>

\* The 200 branch testing "generated_image is not None" instead of the
\* truthiness of the bytes.
OpenRouterSuccessNotNone(result) ==
    IF IsSet(result.choices) /\ result.choices[1] = <<>>
    THEN Raised(PyException("IndexError", <<"list index out of range">>))
    ELSE IF IsSet(result.choices) /\ result.choices[1][1].kind = "null"
    THEN Raised(PyException("TypeError", <<"'NoneType' object is not subscriptable">>))
    ELSE LET generated_image == ExtractOpenRouter(result)
         IN IF IsSet(generated_image)
            THEN Returned(generated_image[1])
            ELSE Raised(HTTPException(502, NoImageDetail))

\* The status == 200 branch of _restore_with_openrouter.
OpenRouterSuccess(result) ==
    IF IsSet(result.choices) /\ result.choices[1] = <<>>
    THEN Raised(PyException("IndexError", <<"list index out of range">>))
    ELSE IF IsSet(result.choices) /\ result.choices[1][1].kind = "null"
    THEN Raised(PyException("TypeError", <<"'NoneType' object is not subscriptable">>))
    ELSE LET generated_image == ExtractOpenRouter(result)
         IN IF TruthyBytes(generated_image)
            THEN Returned(generated_image[1])
            ELSE Raised(HTTPException(502, NoImageDetail))

\* The else branch of _restore_with_openrouter: classification by status code.
OpenRouterError(status_code, error_detail) ==
    IF status_code = 429 THEN Raised(HTTPException(429, QuotaDetail))
    ELSE IF status_code = 401 THEN Raised(HTTPException(403, InvalidKeyDetail))
    ELSE Raised(HTTPException(502, <<"OpenRouter API error: ", error_detail>>))

\* _restore_with_openrouter, given the provider's answer to its one request.
RestoreWithOpenRouter(reply) ==
    IF reply.kind = "transport"
    THEN Raised(HTTPException(502, <<"Network error connecting to OpenRouter: ", reply.text>>))
    ELSE IF reply.status_code = 200
    THEN OpenRouterSuccess(reply.json)
    ELSE OpenRouterError(reply.status_code, reply.text)

\* ------------------------------------------ fallback adapter (Google direct)

\* A node of the SDK response as to_dict() gives it: a dict (items: sequence
\* of [k, v] pairs in iteration order), a list (items: nodes), a str (v: a
\* base64 text), a bytes value (v: bytes), or anything else.
DictNode(items) == [t |-> "dict", items |-> items, v |-> <<>>]
ListNode(items) == [t |-> "list", items |-> items, v |-> <<>>]
StrNode(chars) == [t |-> "str", items |-> <<>>, v |-> chars]
BytesNode(bytes) == [t |-> "bytes", items |-> <<>>, v |-> bytes]
NoneNode == [t |-> "none", items |-> <<>>, v |-> <<>>]

\* node.get(key) of a dict node.
RECURSIVE GetItem(_, _)
GetItem(items, key) ==
    IF items = <<>> THEN NoneNode
    ELSE IF Head(items).k = key THEN Head(items).v
    ELSE GetItem(Tail(items), key)

\* _scan(node) of _extract_image_bytes_from_gemini_response.  ScanItems is
\* the loop "for v in ...: out = _scan(v); if out: return out".
RECURSIVE Scan(_)
RECURSIVE ScanItems(_, _)
ScanItems(items, isDict) ==
    IF items = <<>> THEN Unset
    ELSE LET out == Scan(IF isDict THEN Head(items).v ELSE Head(items))
         IN IF TruthyBytes(out) THEN out ELSE ScanItems(Tail(items), isDict)

Scan(node) ==
    IF node.t = "dict"
    THEN LET inline == GetItem(node.items, "inline_data")
             data_b64 == IF inline.t = "dict" THEN GetItem(inline.items, "data") ELSE NoneNode
         IN IF data_b64.t = "str"
            THEN IF b64decode(data_b64.v).ok THEN Set(b64decode(data_b64.v).value) ELSE Unset
            ELSE IF GetItem(node.items, "data").t = "bytes"
            THEN Set(GetItem(node.items, "data").v)
            ELSE ScanItems(node.items, TRUE)
    ELSE IF node.t = "list" THEN ScanItems(node.items, FALSE)
    ELSE Unset

\* The SDK response object: media is the list of its media parts
\* [mime_type, data]; dict is what to_dict() returns (NoneNode: to_dict
\* raises or is missing).
SdkResponse(media, dict) == [media |-> media, dict |-> dict]

\* The loop over resp_obj.media: the first part with a mime type and data
\* that is bytes, or a str that decodes.
RECURSIVE ScanMedia(_)
ScanMedia(media) ==
    IF media = <<>> THEN [found |-> FALSE, out |-> Unset]
    ELSE LET m == Head(media)
         IN IF Truthy(m.mime_type) /\ m.data.t = "bytes" /\ m.data.v # <<>>
            THEN [found |-> TRUE, out |-> Set(m.data.v)]
            ELSE IF Truthy(m.mime_type) /\ m.data.t = "str" /\ m.data.v # <<>>
                    /\ b64decode(m.data.v).ok
            THEN [found |-> TRUE, out |-> Set(b64decode(m.data.v).value)]
            ELSE ScanMedia(Tail(media))

\* _extract_image_bytes_from_gemini_response(resp_obj) for the SDK object.
ExtractGemini(resp) ==
    IF ScanMedia(resp.media).found THEN ScanMedia(resp.media).out
    ELSE IF resp.dict.t = "dict" /\ resp.dict.items # <<>>
            /\ TruthyBytes(Scan(resp.dict))
    THEN Scan(resp.dict)
    ELSE Unset

\* _extract_image_bytes_from_gemini_response(as_dict): a dict has no media
\* attribute and no to_dict, so only the last line, _scan(resp_obj), acts.
ExtractGeminiDict(as_dict) == Scan(as_dict)

\* str.lower() on the fragments the provider's messages are made of.
Lower(f) ==
    CASE f = "Quota" -> "quota"
      [] f = "INVALID" -> "invalid"
      [] f = "Unauthorized" -> "unauthorized"
      [] f = "RESOURCE_EXHAUSTED" -> "resource_exhausted"
      [] OTHER -> f

\* "needle in error_str" and "needle in error_str.lower()".
Contains(text, needle) == \E i \in 1..Len(text) : text[i] = needle
ContainsLower(text, needle) == \E i \in 1..Len(text) : Lower(text[i]) = needle

GeminiQuotaDetail ==
    <<"API quota exceeded. Please add your own Gemini API key to continue. Get a free key at: https://makersuite.google.com/app/apikey">>
GeminiInvalidKeyDetail == <<"Invalid API key. Please check your Gemini API key and try again.">>
GeminiNoImageDetail == <<"No image returned from Gemini API. Please try again or check your API key.">>

\* The branch with the credential markers tested before the quota markers.
ClassifyGeminiErrorCredentialFirst(error_str) ==
    IF Contains(error_str, "403") \/ ContainsLower(error_str, "invalid")
       \/ ContainsLower(error_str, "unauthorized")
    THEN Raised(HTTPException(403, GeminiInvalidKeyDetail))
    ELSE IF Contains(error_str, "429") \/ ContainsLower(error_str, "quota")
            \/ Contains(error_str, "RESOURCE_EXHAUSTED")
    THEN Raised(HTTPException(429, GeminiQuotaDetail))
    ELSE Raised(HTTPException(502,
             <<"Gemini API error: ">> \o error_str \o <<". Please try again or check your API key.">>))

\* The "except Exception as e" branch of _restore_with_google_direct.
ClassifyGeminiError(error_str) ==
    IF Contains(error_str, "429") \/ ContainsLower(error_str, "quota")
       \/ Contains(error_str, "RESOURCE_EXHAUSTED")
    THEN Raised(HTTPException(429, GeminiQuotaDetail))
    ELSE IF Contains(error_str, "403") \/ ContainsLower(error_str, "invalid")
            \/ ContainsLower(error_str, "unauthorized")
    THEN Raised(HTTPException(403, GeminiInvalidKeyDetail))
    ELSE Raised(HTTPException(502,
             <<"Gemini API error: ">> \o error_str \o <<". Please try again or check your API key.">>))

\* What happens to the one SDK call of the fallback adapter:
\*   kind "import": "from google import genai" raised (text = str(e));
\*   kind "exception": Client(...) or generate_content raised (text = str(e));
\*   kind "response": generate_content returned response.
GeminiImportError(text) ==
    [kind |-> "import", text |-> text, response |-> SdkResponse(<<>>, NoneNode)]
GeminiException(text) ==
    [kind |-> "exception", text |-> text, response |-> SdkResponse(<<>>, NoneNode)]
GeminiReply(response) == [kind |-> "response", text |-> <<>>, response |-> response]

\* _restore_with_google_direct, given the outcome of its one SDK call.
RestoreWithGoogleDirect(reply) ==
    IF reply.kind = "import"
    THEN Raised(HTTPException(500, <<"google-genai not available: ">> \o reply.text))
    ELSE IF reply.kind = "exception"
    THEN ClassifyGeminiError(reply.text)
    ELSE LET first == ExtractGemini(reply.response)
             as_dict == reply.response.dict
             image_bytes == IF ~TruthyBytes(first) /\ as_dict.t = "dict" /\ as_dict.items # <<>>
                            THEN ExtractGeminiDict(as_dict)
                            ELSE first
         IN IF ~TruthyBytes(image_bytes)
            THEN Raised(HTTPException(502, GeminiNoImageDetail))
            ELSE Returned(image_bytes[1])

\* ------------------------------------------------------------ the state

VARIABLES
    env,          \* os.environ: OPENROUTER_API_KEY and GOOGLE_API_KEY
    db,           \* db.photo_restorations: the set of stored job documents
    blobs,        \* STORAGE_DIR: file name -> Unset (no file) or Set(bytes)
    clock,        \* datetime.now(), in half seconds; every reading is later than the last
    pc,           \* per upload request: where its handler stands
    file,         \* per upload request: the multipart form (file, api_key)
    restoration,  \* per upload request: the handler's PhotoRestoration object
    result,       \* per upload request: what the try block has so far
    call,         \* per upload request: the provider requests it has issued
    response,     \* per upload request: the HTTP response of the handler
    polled,       \* per job id: the last answer of GET /restoration/{id}
    download,     \* the GET /download/{id} request being served, or the last one
    listed,       \* the last answer of GET /restorations
    extraction,   \* a provider payload handed to the extractors, and their results
    connected     \* per upload request: the caller's connection is still open

vars == <<env, db, blobs, clock, pc, file, restoration, result, call, response,
          polled, download, listed, extraction, connected>>

\* What the upload handler never touches.
aside == <<polled, download, listed, extraction, connected>>

\* str(uuid.uuid4()): a fresh identifier for every request.
Uuid4(u) == u

\* A file name that does not depend on the job.
RestoredFilenameShared(id) == <<"restored_", 0, ".jpg">>

\* f"restored_{restoration_id}.jpg"
RestoredFilename(id) == <<"restored_", id, ".jpg">>

Filenames == {RestoredFilename(Uuid4(u)) : u \in Uploads}

\* PhotoRestoration(id=..., original_filename=..., restored_filename=...,
\* status="processing") with the defaults of the model class.
PhotoRestoration(id, original_filename, now) ==
    [id |-> id,
     original_filename |-> original_filename,
     restored_filename |-> RestoredFilename(id),
     status |-> "processing",
     created_at |-> now,
     processing_time |-> Unset,
     error_message |-> Unset]

NoRestoration == PhotoRestoration(0, None, 0)

\* The multipart form of a request: the file part's content_type (<<>> when
\* missing), the number of bytes file.read() returns, its filename, and the
\* api_key field.
Form(content_type, size, filename, api_key) ==
    [content_type |-> content_type, size |-> size, filename |-> filename,
     api_key |-> api_key]

NoFile == Form(<<>>, 0, None, None)

ImagePng == <<"image/", "png">>

\* The requests the model draws: every way of being rejected, and accepted
\* uploads at both size limits, with and without a file name, with every
\* kind of caller key.
Requests ==
    {Form(<<>>, MinSize, "photo.png", None),
     Form(<<"text/", "plain">>, MinSize, "notes.txt", None),
     Form(ImagePng, MinSize - 1, "photo.png", None),
     Form(ImagePng, 90, "test_photo.png", None),
     Form(ImagePng, MaxSize + 1, "photo.png", "sk-caller")}
    \cup {Form(ImagePng, MinSize, None, None),
          Form(ImagePng, MinSize, "photo.png", ""),
          Form(ImagePng, MaxSize, "photo.png", "sk-caller")}

\* What the environment may hold for a key: unset, empty, or a key.
EnvValues(key) == {None, "", key}

\* The handler's locals before the try block has produced anything.
NoResult == [data |-> Unset, processing_time |-> Unset, exc |-> PyException("", <<>>)]

NoResponse == [status_code |-> 0, detail |-> <<>>, body |-> NoRestoration]

\* raise HTTPException(status_code, detail) leaving the handler, and
\* "return restoration" (response_model=PhotoRestoration, HTTP 200).
ErrorResponse(status_code, detail) ==
    [status_code |-> status_code, detail |-> detail, body |-> NoRestoration]
JobResponse(job) == [status_code |-> 200, detail |-> <<>>, body |-> job]

\* An awaited Job Store write either returns, or raises without the write
\* having been applied, or raises although the store applied the write (the
\* acknowledgement is lost).
DbOutcomes == {"ok", "raise_unapplied", "raise_applied"}
DbApplied(o) == o \in {"ok", "raise_applied"}
DbError == PyException("PyMongoError", <<"job store unavailable">>)

\* An update that rewrites the whole document from the fields it is given.
UpdateOneReplacing(docs, id, status, processing_time, error_message) ==
    {IF d.id = id
     THEN [d EXCEPT !.status = status,
                    !.processing_time = processing_time,
                    !.error_message = error_message,
                    !.original_filename = None]
     ELSE d : d \in docs}

\* db.photo_restorations.update_one({"id": id}, {"$set": fields})
UpdateOne(docs, id, status, processing_time, error_message) ==
    {IF d.id = id
     THEN [d EXCEPT !.status = status,
                    !.processing_time = IF IsSet(processing_time) THEN processing_time ELSE @,
                    !.error_message = IF IsSet(error_message) THEN error_message ELSE @]
     ELSE d : d \in docs}

\* db.photo_restorations.find_one({"id": id}): the documents it can return.
FindOne(docs, id) == {d \in docs : d.id = id}

\* The restoration_id path parameters the read requests are made with: an
\* id is unknown to the Job Store until its upload has inserted the job.
Ids == {Uuid4(u) : u \in Uploads}

\* The download handler's request: where it stands, the id asked for, the
\* file its response streams (restored_filename, <<>> when none), its calls
\* on STORAGE_DIR so far, and the response: status_code, detail and the
\* bytes delivered (Unset: none).
DownloadState(pc_, id, path, blob_calls, status_code, detail, body) ==
    [pc |-> pc_, id |-> id, path |-> path, blob_calls |-> blob_calls,
     status_code |-> status_code, detail |-> detail, body |-> body]

NoDownload == DownloadState("idle", 0, <<>>, <<>>, 0, <<>>, Unset)

\* A payload under extraction: the provider's document as the primary
\* adapter reads it (json) and as the fallback adapter reads it (response),
\* and what each extractor returned for it (out: <<>> until it has run).
Extraction(json, sdk, out) == [json |-> json, response |-> sdk, out |-> out]

NoExtraction == Extraction(NoJson, SdkResponse(<<>>, NoneNode), <<>>)

\* datetime.isoformat() of a reading of the clock, which counts half
\* seconds: "<date and time to the second>+00:00" when the microsecond is
\* 0 and "<...>.500000+00:00" otherwise.
IsoFormat(now) ==
    IF now % 2 = 0
    THEN <<now \div 2, "+00:00">>
    ELSE <<now \div 2, ".", 500000, "+00:00">>

\* restoration.dict() with created_at replaced by its isoformat().
RestorationDict(r) == [r EXCEPT !.created_at = IsoFormat(@)]

\* The event loop is not held by a handler inside its provider call:
\* requests.post and the SDK's generate_content are synchronous calls made
\* from a coroutine, so until they return no other coroutine runs.
LoopFree == \A u \in Uploads : pc[u] # "calling"

Init ==
    /\ env \in [OPENROUTER_API_KEY : EnvValues("sk-or-env"),
                GOOGLE_API_KEY : EnvValues("g-env")]
    /\ db = {}
    /\ blobs = [f \in Filenames |-> Unset]
    /\ clock = 0
    /\ pc = [u \in Uploads |-> "idle"]
    /\ file = [u \in Uploads |-> NoFile]
    /\ restoration = [u \in Uploads |-> NoRestoration]
    /\ result = [u \in Uploads |-> NoResult]
    /\ call = [u \in Uploads |-> <<>>]
    /\ response = [u \in Uploads |-> NoResponse]
    /\ polled = [id \in Ids |-> NoResponse]
    /\ download = NoDownload
    /\ listed = Unset
    /\ extraction = NoExtraction
    /\ connected = [u \in Uploads |-> TRUE]

\* ------------------------------------------------- provider selection

NoKeyDetail ==
    <<"No API key provided. Please add your OpenRouter or Google API key to continue.">>

\* With the environment's OpenRouter key preferred to the caller's key.
SelectProviderEnvFirst(api_key, environ) ==
    LET openrouter_api_key == Or(environ.OPENROUTER_API_KEY, api_key)
        google_api_key == environ.GOOGLE_API_KEY
    IN IF Truthy(openrouter_api_key)
       THEN [adapter |-> "openrouter", key |-> openrouter_api_key]
       ELSE IF Truthy(google_api_key)
       THEN [adapter |-> "google", key |-> google_api_key]
       ELSE [adapter |-> "none", key |-> None]

\* With the direct Google key looked at before the OpenRouter key.
SelectProviderFallbackFirst(api_key, environ) ==
    LET openrouter_api_key == Or(api_key, environ.OPENROUTER_API_KEY)
        google_api_key == environ.GOOGLE_API_KEY
    IN IF Truthy(google_api_key)
       THEN [adapter |-> "google", key |-> google_api_key]
       ELSE IF Truthy(openrouter_api_key)
       THEN [adapter |-> "openrouter", key |-> openrouter_api_key]
       ELSE [adapter |-> "none", key |-> None]

\* The if/elif/else of restore_photo_with_ai: which adapter runs, with which key.
SelectProvider(api_key, environ) ==
    LET openrouter_api_key == Or(api_key, environ.OPENROUTER_API_KEY)
        google_api_key == environ.GOOGLE_API_KEY
    IN IF Truthy(openrouter_api_key)
       THEN [adapter |-> "openrouter", key |-> openrouter_api_key]
       ELSE IF Truthy(google_api_key)
       THEN [adapter |-> "google", key |-> google_api_key]
       ELSE [adapter |-> "none", key |-> None]

\* base64 texts of one-byte images: "AQ==" is b"\x01", "Ag==" is b"\x02".
B64One == <<0, 16, Pad, Pad>>
B64Two == <<0, 32, Pad, Pad>>

\* A base64 text that decodes to no bytes at all: "=" is b"".
B64Empty == <<Pad>>

Plain == [uri |-> FALSE, b64 |-> <<>>]
DataUri(b64) == [uri |-> TRUE, b64 |-> b64]
StrContent(body) == [kind |-> "str", body |-> body]
NullContent == [kind |-> "null", body |-> <<>>]
Json(choices) == [choices |-> Set(choices)]

\* The answers the provider gives in the model to the primary adapter's request.
OpenRouterReplies ==
    { TransportError(<<"Read timed out.">>),
      HttpReply(200, <<>>, Json(<<StrContent(<<Plain, DataUri(B64One)>>)>>)),
      HttpReply(200, <<>>, Json(<<StrContent(<<Plain>>)>>)),
      HttpReply(200, <<>>, Json(<<StrContent(<<DataUri(B64Empty)>>)>>)),
      HttpReply(200, <<>>, Json(<<>>)),
      HttpReply(200, <<>>, Json(<<NullContent>>)),
      HttpReply(201, <<"created">>, Json(<<StrContent(<<DataUri(B64One)>>)>>)),
      HttpReply(429, <<"rate limited">>, NoJson),
      HttpReply(401, <<"no auth">>, NoJson),
      HttpReply(403, <<"forbidden">>, NoJson),
      HttpReply(500, <<"internal error">>, NoJson) }

\* The outcomes of the fallback adapter's SDK call in the model.
GeminiReplies ==
    { GeminiImportError(<<"No module named 'google'">>),
      GeminiException(<<"429 ", "RESOURCE_EXHAUSTED">>),
      GeminiException(<<"API key not valid: ", "INVALID", "_ARGUMENT">>),
      GeminiException(<<"deadline exceeded">>),
      GeminiReply(SdkResponse(<<>>,
          DictNode(<<[k |-> "inline_data",
                      v |-> DictNode(<<[k |-> "data", v |-> StrNode(B64Two)]>>)]>>))),
      GeminiReply(SdkResponse(<<>>,
          DictNode(<<[k |-> "inline_data",
                      v |-> DictNode(<<[k |-> "data", v |-> StrNode(B64Empty)]>>)]>>))),
      GeminiReply(SdkResponse(<<>>, DictNode(<<[k |-> "text", v |-> NoneNode]>>))) }

\* (datetime.now() - start_time).total_seconds(), in the model's time unit.
Durations == {0, 3}

\* ------------------------------------------------------- upload_photo

\* With a body of exactly the minimum size turned away.
ValidateOffByOne(form) ==
    IF form.content_type = <<>> \/ Head(form.content_type) # "image/"
    THEN <<"File must be an image">>
    ELSE IF form.size <= MinSize THEN <<"Image file is too small or corrupted">>
    ELSE IF form.size > MaxSize THEN <<"Image file is too large (max 10MB)">>
    ELSE <<>>

\* With the content type not looked at.
ValidateSizeOnly(form) ==
    IF form.size < MinSize THEN <<"Image file is too small or corrupted">>
    ELSE IF form.size > MaxSize THEN <<"Image file is too large (max 10MB)">>
    ELSE <<>>

\* Lines 616-627: the three checks in their order; the detail of the 400
\* raised, or <<>> when the form passes.
Validate(form) ==
    IF form.content_type = <<>> \/ Head(form.content_type) # "image/"
    THEN <<"File must be an image">>
    ELSE IF form.size < MinSize THEN <<"Image file is too small or corrupted">>
    ELSE IF form.size > MaxSize THEN <<"Image file is too large (max 10MB)">>
    ELSE <<>>

\* Lines 614-636: validation of the form, then the PhotoRestoration object.
\* Requests are numbered in the order they arrive.
Receive(u) ==
    /\ pc[u] = "idle"
    /\ LoopFree
    /\ \A v \in Uploads : v < u => pc[v] # "idle"
    /\ \E form \in Requests :
         /\ file' = [file EXCEPT ![u] = form]
         /\ IF Validate(form) # <<>>
            THEN /\ response' = [response EXCEPT ![u] = ErrorResponse(400, Validate(form))]
                 /\ pc' = [pc EXCEPT ![u] = "responded"]
                 /\ UNCHANGED <<restoration, clock>>
            ELSE /\ restoration' = [restoration EXCEPT ![u] =
                        PhotoRestoration(Uuid4(u), Or(form.filename, "unknown.jpg"), clock + 1)]
                 /\ clock' = clock + 1
                 /\ pc' = [pc EXCEPT ![u] = "insert"]
                 /\ UNCHANGED response
    /\ UNCHANGED <<aside, env, db, blobs, result, call>>

\* Lines 640-644: await db.photo_restorations.insert_one(restoration_dict).
\* A raise goes to the outer "except Exception": HTTP 500.
InsertJob(u) ==
    /\ pc[u] = "insert"
    /\ LoopFree
    /\ \E o \in DbOutcomes :
         /\ db' = IF DbApplied(o) THEN db \cup {RestorationDict(restoration[u])} ELSE db
         /\ IF o = "ok"
            THEN /\ pc' = [pc EXCEPT ![u] = "restore"]
                 /\ UNCHANGED response
            ELSE /\ pc' = [pc EXCEPT ![u] = "responded"]
                 /\ response' = [response EXCEPT ![u] =
                        ErrorResponse(500, <<"Upload failed: ">> \o Str(DbError))]
    /\ UNCHANGED <<aside, env, blobs, clock, file, restoration, result, call>>

\* One adapter invocation as the provider side sees it: the adapter, the
\* key it was given, the number of requests it sent, and the answer (its
\* kind and status code, and the whole of it).
Invocation(adapter, key, requests, kind, status_code, reply) ==
    [adapter |-> adapter, key |-> key, requests |-> requests, kind |-> kind,
     status_code |-> status_code, reply |-> reply]

\* _restore_with_openrouter(image_data, filename, key, model): every way it
\* can run, as [calls, outcome].
OpenRouterRuns(key) ==
    {[calls |-> <<Invocation("openrouter", key, 1, reply.kind, reply.status_code, reply)>>,
      outcome |-> RestoreWithOpenRouter(reply)] : reply \in OpenRouterReplies}

\* _restore_with_google_direct(image_data, filename, key): every way it can
\* run; the SDK is not called when its import fails.
GoogleDirectRuns(key) ==
    {[calls |-> <<Invocation("google", key, IF reply.kind = "import" THEN 0 ELSE 1,
                             reply.kind, 0, reply)>>,
      outcome |-> RestoreWithGoogleDirect(reply)] : reply \in GeminiReplies}

\* With a retry on the fallback adapter after the primary adapter failed.
RestorePhotoWithAiRetrying(api_key, environ) ==
    LET sel == SelectProvider(api_key, environ)
    IN IF sel.adapter = "openrouter"
       THEN {r \in OpenRouterRuns(sel.key) : r.outcome.ok}
            \cup {[calls |-> r.calls \o g.calls, outcome |-> g.outcome] :
                    r \in {x \in OpenRouterRuns(sel.key) : ~x.outcome.ok},
                    g \in GoogleDirectRuns(environ.GOOGLE_API_KEY)}
       ELSE IF sel.adapter = "google" THEN GoogleDirectRuns(sel.key)
       ELSE {[calls |-> <<>>, outcome |-> Raised(HTTPException(400, NoKeyDetail))]}

\* restore_photo_with_ai(image_data, filename, api_key): every way it can
\* run, as the adapter invocations made and what the caller gets back.
RestorePhotoWithAi(api_key, environ) ==
    LET sel == SelectProvider(api_key, environ)
    IN IF sel.adapter = "openrouter" THEN OpenRouterRuns(sel.key)
       ELSE IF sel.adapter = "google" THEN GoogleDirectRuns(sel.key)
       ELSE {[calls |-> <<>>, outcome |-> Raised(HTTPException(400, NoKeyDetail))]}

\* Lines 648-655: start_time is taken and restore_photo_with_ai runs up to
\* its provider call, in which the handler holds the event loop.
CallProvider(u) ==
    /\ pc[u] = "restore"
    /\ LoopFree
    /\ pc' = [pc EXCEPT ![u] = "calling"]
    /\ UNCHANGED <<aside, env, db, blobs, clock, file, restoration, result, call, response>>

\* Lines 651-658: the provider call is over, restore_photo_with_ai returns or
\* raises, processing_time is taken; a raise goes to "except Exception as e".
Restore(u) ==
    /\ pc[u] = "calling"
    /\ \E run \in RestorePhotoWithAi(file[u].api_key, env), duration \in Durations :
         /\ call' = [call EXCEPT ![u] = @ \o run.calls]
         /\ IF run.outcome.ok
            THEN /\ result' = [result EXCEPT ![u] =
                        [data |-> Set(run.outcome.value),
                         processing_time |-> Set(duration),
                         exc |-> NoResult.exc]]
                 /\ pc' = [pc EXCEPT ![u] = "write"]
            ELSE /\ result' = [result EXCEPT ![u] =
                        [NoResult EXCEPT !.exc = run.outcome.exc]]
                 /\ pc' = [pc EXCEPT ![u] = "fail"]
    /\ UNCHANGED <<aside, env, db, blobs, clock, file, restoration, response>>

\* open(restored_path, "wb") and f.write: the file is created empty by open,
\* then filled; either call can raise OSError.
BlobOutcomes == {"ok", "open_raises", "write_raises"}

\* With the file write left out of the success path.
WriteBlobSkipped(u) ==
    /\ pc[u] = "write"
    /\ LoopFree
    /\ pc' = [pc EXCEPT ![u] = "complete"]
    /\ UNCHANGED <<aside, env, db, blobs, clock, file, restoration, result, call, response>>

\* With an OSError of the file write swallowed: the handler goes on to the
\* status update whatever open() and write() did.
WriteBlobIgnoringErrors(u) ==
    /\ pc[u] = "write"
    /\ LoopFree
    /\ \E o \in BlobOutcomes :
         LET name == restoration[u].restored_filename
         IN blobs' = [blobs EXCEPT ![name] =
                CASE o = "ok" -> result[u].data
                  [] o = "write_raises" -> Set(<<>>)
                  [] OTHER -> @]
    /\ pc' = [pc EXCEPT ![u] = "complete"]
    /\ UNCHANGED <<aside, env, db, clock, file, restoration, result, call, response>>

\* Lines 660-664: the restored image is written to STORAGE_DIR.
WriteBlob(u) ==
    /\ pc[u] = "write"
    /\ LoopFree
    /\ \E o \in BlobOutcomes :
         LET name == restoration[u].restored_filename
         IN /\ blobs' = [blobs EXCEPT ![name] =
                   CASE o = "ok" -> result[u].data
                     [] o = "write_raises" -> Set(<<>>)
                     [] OTHER -> @]
            /\ IF o = "ok"
               THEN /\ pc' = [pc EXCEPT ![u] = "complete"]
                    /\ UNCHANGED result
               ELSE /\ pc' = [pc EXCEPT ![u] = "fail"]
                    /\ result' = [result EXCEPT ![u].exc =
                           PyException("OSError", <<"No space left on device">>)]
    /\ UNCHANGED <<aside, env, db, clock, file, restoration, call, response>>

\* Lines 666-679 and 698: update_one sets status "completed"; when it returns
\* the handler sets its own object and returns it.
UpdateCompleted(u) ==
    /\ pc[u] = "complete"
    /\ LoopFree
    /\ \E o \in DbOutcomes :
         /\ db' = IF DbApplied(o)
                  THEN UpdateOne(db, restoration[u].id, "completed",
                                 result[u].processing_time, Unset)
                  ELSE db
         /\ IF o = "ok"
            THEN /\ restoration' = [restoration EXCEPT
                        ![u].status = "completed",
                        ![u].processing_time = result[u].processing_time]
                 /\ response' = [response EXCEPT ![u] = JobResponse(restoration'[u])]
                 /\ pc' = [pc EXCEPT ![u] = "responded"]
                 /\ UNCHANGED result
            ELSE /\ result' = [result EXCEPT ![u].exc = DbError]
                 /\ pc' = [pc EXCEPT ![u] = "fail"]
                 /\ UNCHANGED <<restoration, response>>
    /\ UNCHANGED <<aside, env, blobs, clock, file, call>>

\* Lines 681-698: "except Exception as e": update_one sets status "failed"
\* and error_message = str(e); a raise here leaves through the outer handler.
UpdateFailed(u) ==
    /\ pc[u] = "fail"
    /\ LoopFree
    /\ LET error_msg == Str(result[u].exc)
       IN \E o \in DbOutcomes :
            /\ db' = IF DbApplied(o)
                     THEN UpdateOne(db, restoration[u].id, "failed", Unset, Set(error_msg))
                     ELSE db
            /\ IF o = "ok"
               THEN /\ restoration' = [restoration EXCEPT
                           ![u].status = "failed",
                           ![u].error_message = Set(error_msg)]
                    /\ response' = [response EXCEPT ![u] = JobResponse(restoration'[u])]
               ELSE /\ response' = [response EXCEPT ![u] =
                           ErrorResponse(500, <<"Upload failed: ">> \o Str(DbError))]
                    /\ UNCHANGED restoration
            /\ pc' = [pc EXCEPT ![u] = "responded"]
    /\ UNCHANGED <<aside, env, blobs, clock, file, result, call>>

\* The response has been sent and the handler's frame is gone.
Finish(u) ==
    /\ pc[u] = "responded"
    /\ LoopFree
    /\ pc' = [pc EXCEPT ![u] = "done"]
    /\ file' = [file EXCEPT ![u] = NoFile]
    /\ restoration' = [restoration EXCEPT ![u] = NoRestoration]
    /\ result' = [result EXCEPT ![u] = NoResult]
    /\ call' = [call EXCEPT ![u] = <<>>]
    /\ response' = [response EXCEPT ![u] = NoResponse]
    /\ UNCHANGED <<aside, env, db, blobs, clock>>

Next ==
    \E u \in Uploads :
        \/ Receive(u)
        \/ InsertJob(u)
        \/ CallProvider(u)
        \/ Restore(u)
        \/ WriteBlob(u)
        \/ UpdateCompleted(u)
        \/ UpdateFailed(u)
        \/ Finish(u)

Spec == Init /\ [][Next]_vars

\* -------------------------------------------------------- read handlers

\* With a job that is still 'processing' answered as not found.
GetRestorationStatusHidingProcessing(id) ==
    /\ LoopFree
    /\ polled' = [polled EXCEPT ![id] =
           IF \A d \in FindOne(db, id) : d.status = "processing"
           THEN ErrorResponse(404, <<"Restoration not found">>)
           ELSE JobResponse(CHOOSE d \in FindOne(db, id) : TRUE)]
    /\ UNCHANGED <<download, listed, extraction, connected, env, db, blobs, clock,
                   pc, file, restoration, result, call, response>>

\* get_restoration_status(restoration_id), lines 711-719: one find_one, then
\* 404 or the stored document (without '_id').  The answer is what the
\* polling client holds for that id from then on.
GetRestorationStatus(id) ==
    /\ LoopFree
    /\ polled' = [polled EXCEPT ![id] =
           IF FindOne(db, id) = {}
           THEN ErrorResponse(404, <<"Restoration not found">>)
           ELSE JobResponse(CHOOSE d \in FindOne(db, id) : TRUE)]
    /\ UNCHANGED <<download, listed, extraction, connected, env, db, blobs, clock,
                   pc, file, restoration, result, call, response>>

\* With the file looked for before the status is looked at.
DownloadRestoredPhotoBlobFirst(id) ==
    /\ download.pc \in {"idle", "done"}
    /\ LoopFree
    /\ LET found == FindOne(db, id)
           doc == CHOOSE d \in found : TRUE
       IN download' =
            IF found = {}
            THEN DownloadState("done", id, <<>>, <<>>, 404, <<"Restoration not found">>, Unset)
            ELSE IF ~IsSet(blobs[doc.restored_filename])
            THEN DownloadState("done", id, <<>>, <<"exists">>, 404,
                               <<"Restored image file not found">>, Unset)
            ELSE IF doc.status # "completed"
            THEN DownloadState("done", id, <<>>, <<"exists">>, 400,
                               <<"Photo restoration not completed yet">>, Unset)
            ELSE DownloadState("streaming", id, doc.restored_filename, <<"exists">>,
                               200, <<>>, Unset)
    /\ UNCHANGED <<polled, listed, extraction, connected, env, db, blobs, clock,
                   pc, file, restoration, result, call, response>>

\* With no look at the status of the job.
DownloadRestoredPhotoUnchecked(id) ==
    /\ download.pc \in {"idle", "done"}
    /\ LoopFree
    /\ LET found == FindOne(db, id)
           doc == CHOOSE d \in found : TRUE
       IN download' =
            IF found = {}
            THEN DownloadState("done", id, <<>>, <<>>, 404, <<"Restoration not found">>, Unset)
            ELSE IF ~IsSet(blobs[doc.restored_filename])
            THEN DownloadState("done", id, <<>>, <<"exists">>, 404,
                               <<"Restored image file not found">>, Unset)
            ELSE DownloadState("streaming", id, doc.restored_filename, <<"exists">>,
                               200, <<>>, Unset)
    /\ UNCHANGED <<polled, listed, extraction, connected, env, db, blobs, clock,
                   pc, file, restoration, result, call, response>>

\* download_restored_photo(restoration_id), lines 726-747: find_one, the
\* status check, restored_path.exists(), and the StreamingResponse, which
\* has not opened the file yet.  No await separates these lines.
DownloadRestoredPhoto(id) ==
    /\ download.pc \in {"idle", "done"}
    /\ LoopFree
    /\ LET found == FindOne(db, id)
           doc == CHOOSE d \in found : TRUE
       IN download' =
            IF found = {}
            THEN DownloadState("done", id, <<>>, <<>>, 404, <<"Restoration not found">>, Unset)
            ELSE IF doc.status # "completed"
            THEN DownloadState("done", id, <<>>, <<>>, 400,
                               <<"Photo restoration not completed yet">>, Unset)
            ELSE IF ~IsSet(blobs[doc.restored_filename])
            THEN DownloadState("done", id, <<>>, <<"exists">>, 404,
                               <<"Restored image file not found">>, Unset)
            ELSE DownloadState("streaming", id, doc.restored_filename, <<"exists">>,
                               200, <<>>, Unset)
    /\ UNCHANGED <<polled, listed, extraction, connected, env, db, blobs, clock,
                   pc, file, restoration, result, call, response>>

\* With the last byte of the file not sent.
IterFileTruncated(path) ==
    IF IsSet(blobs[path])
    THEN Returned(SubSeq(blobs[path][1], 1, Len(blobs[path][1]) - 1))
    ELSE Raised(PyException("FileNotFoundError", <<"No such file or directory">>))

\* iter_file(file_path), lines 739-741: open(file_path, "rb") and
\* "yield from f": the chunks put together are the content of the file.
IterFile(path) ==
    IF IsSet(blobs[path])
    THEN Returned(blobs[path][1])
    ELSE Raised(PyException("FileNotFoundError", <<"No such file or directory">>))

\* The response is sent: status 200 has gone out, iter_file runs; when open
\* raises the connection is closed without a body.
StreamFile ==
    /\ download.pc = "streaming"
    /\ LoopFree
    /\ LET out == IterFile(download.path)
       IN download' = [download EXCEPT
              !.pc = "done",
              !.path = <<>>,
              !.blob_calls = @ \o <<"open">>,
              !.body = IF out.ok THEN Set(out.value) ELSE Unset,
              !.detail = IF out.ok THEN <<>> ELSE Str(out.exc)]
    /\ UNCHANGED <<polled, listed, extraction, connected, env, db, blobs, clock,
                   pc, file, restoration, result, call, response>>

\* A file of STORAGE_DIR is removed by something other than the server (the
\* directory is cleaned, the volume is replaced).
BlobLost(name) ==
    /\ IsSet(blobs[name])
    /\ blobs' = [blobs EXCEPT ![name] = Unset]
    /\ UNCHANGED <<aside, env, db, clock, pc, file, restoration, result,
                   call, response>>

\* The deployment the read handlers are followed in: the server holds a
\* Google key, so an upload with a caller key goes to the primary adapter
\* and one without to the fallback adapter, and the two return different
\* images.
Deployed == [OPENROUTER_API_KEY |-> None, GOOGLE_API_KEY |-> "g-env"]

ReadInit == Init /\ env = Deployed

\* Uploads together with status polling.
StatusNext ==
    \/ Next
    \/ \E id \in Ids : GetRestorationStatus(id)

StatusSpec == ReadInit /\ [][StatusNext]_vars

\* Uploads together with downloads and the loss of files.
DownloadNext ==
    \/ Next
    \/ \E id \in Ids : DownloadRestoredPhoto(id)
    \/ StreamFile
    \/ \E name \in Filenames : BlobLost(name)

DownloadSpec == ReadInit /\ [][DownloadNext]_vars

\* -------------------------------------------------------- client disconnect

\* The caller of upload u closes its connection while the handler runs.
\* Nothing in the server watches the connection (no request.is_disconnected,
\* and uvicorn does not cancel a handler whose client is gone), so this
\* changes no state of the handler.
Disconnect(u) ==
    /\ connected[u]
    /\ pc[u] \in {"restore", "calling", "write", "complete", "fail"}
    /\ connected' = [connected EXCEPT ![u] = FALSE]
    /\ UNCHANGED <<polled, download, listed, extraction, env, db, blobs, clock,
                   pc, file, restoration, result, call, response>>

\* Uploads whose callers may go away after the job was created.
DisconnectNext ==
    \/ Next
    \/ \E u \in Uploads : Disconnect(u)

DisconnectSpec == ReadInit /\ [][DisconnectNext]_vars

\* ------------------------------------------------------------ termination

\* requests.post(..., timeout=60) gives up on a provider that does not
\* answer: requests raises a Timeout (a RequestException) and the primary
\* adapter returns its network error.  The fallback adapter's
\* genai.Client(api_key=api_key) and generate_content(...) are given no
\* timeout, so nothing in the server ends a call the provider leaves open.
Timeout(u) ==
    /\ pc[u] = "calling"
    /\ SelectProvider(file[u].api_key, env).adapter = "openrouter"
    /\ LET reply == TransportError(<<"Read timed out.">>)
       IN /\ call' = [call EXCEPT ![u] =
                 @ \o <<Invocation("openrouter", SelectProvider(file[u].api_key, env).key,
                                   1, reply.kind, reply.status_code, reply)>>]
          /\ result' = [result EXCEPT ![u] =
                 [NoResult EXCEPT !.exc = RestoreWithOpenRouter(reply).exc]]
    /\ pc' = [pc EXCEPT ![u] = "fail"]
    /\ UNCHANGED <<aside, env, db, blobs, clock, file, restoration, response>>

LiveNext ==
    \/ Next
    \/ \E u \in Uploads : Timeout(u)

\* The event loop runs every handler step that is ready, Job Store calls
\* return or raise (the driver has its own timeouts), and a timeout that
\* is armed fires.  A request arriving (Receive) and the provider
\* answering (Restore) are up to the caller and the provider.
Fairness ==
    \A u \in Uploads :
        /\ WF_vars(InsertJob(u))
        /\ WF_vars(CallProvider(u))
        /\ WF_vars(Timeout(u))
        /\ WF_vars(WriteBlob(u))
        /\ WF_vars(UpdateCompleted(u))
        /\ WF_vars(UpdateFailed(u))
        /\ WF_vars(Finish(u))

LiveSpec == ReadInit /\ [][LiveNext]_vars /\ Fairness

\* -------------------------------------------------------------------- crash

\* The server process dies and is started again: every handler in flight
\* is gone with its locals, the Job Store and STORAGE_DIR keep what they
\* hold, and a handler that was inside "with open(...) as f: f.write(...)"
\* may leave its file created but not filled.
Crash ==
    /\ \E u \in Uploads : pc[u] \notin {"idle", "done"}
    /\ \E cut \in SUBSET {u \in Uploads : pc[u] = "write"} :
           blobs' = [name \in Filenames |->
                        IF \E u \in cut : restoration[u].restored_filename = name
                        THEN Set(<<>>)
                        ELSE blobs[name]]
    /\ pc' = [u \in Uploads |-> IF pc[u] = "idle" THEN "idle" ELSE "done"]
    /\ file' = [u \in Uploads |-> NoFile]
    /\ restoration' = [u \in Uploads |-> NoRestoration]
    /\ result' = [u \in Uploads |-> NoResult]
    /\ call' = [u \in Uploads |-> <<>>]
    /\ response' = [u \in Uploads |-> NoResponse]
    /\ UNCHANGED <<aside, env, db, clock>>

\* The uploads on a server that can die at any point.
CrashNext ==
    \/ Next
    \/ Crash

CrashSpec == ReadInit /\ [][CrashNext]_vars

\* ------------------------------------------------- fallback adapter errors

\* The texts of the exceptions the SDK call raises in the model: one
\* fragment, with or without a marker the adapter looks for (one in other
\* letter case than the adapter tests), or two, a quota-side fragment and
\* a credential-side fragment in either order.
Messages ==
    LET quotaSide == {"429", "Quota", "RESOURCE_EXHAUSTED", "resource_exhausted"}
        credentialSide == {"403", "INVALID", "Unauthorized", "deadline exceeded"}
    IN {<<a>> : a \in quotaSide \cup credentialSide}
       \cup {<<a, b>> : a \in quotaSide, b \in credentialSide}
       \cup {<<b, a>> : a \in quotaSide, b \in credentialSide}

\* The provider call of u comes back from the fallback adapter, whose SDK
\* call raised an exception with one of these texts.
RestoreGeminiRaises(u) ==
    /\ pc[u] = "calling"
    /\ SelectProvider(file[u].api_key, env).adapter = "google"
    /\ \E text \in Messages :
         LET reply == GeminiException(text)
         IN /\ call' = [call EXCEPT ![u] =
                   @ \o <<Invocation("google", SelectProvider(file[u].api_key, env).key,
                                     1, reply.kind, 0, reply)>>]
            /\ result' = [result EXCEPT ![u] =
                   [NoResult EXCEPT !.exc = RestoreWithGoogleDirect(reply).exc]]
    /\ pc' = [pc EXCEPT ![u] = "fail"]
    /\ UNCHANGED <<aside, env, db, blobs, clock, file, restoration, response>>

\* The uploads, with a fallback provider that fails in many ways.
ClassifyNext ==
    \/ Next
    \/ \E u \in Uploads : RestoreGeminiRaises(u)

ClassifySpec == ReadInit /\ [][ClassifyNext]_vars

\* ------------------------------------------------------ get_restorations

\* The page size of the list endpoint: to_list(100).
PageSize == 100

\* a < b for two created_at strings, as the Job Store's sort compares
\* them: the date and time to the second first (fixed width), and within
\* one second "+" (no fraction) sorts before ".", then the fraction.
IsoLess(a, b) ==
    \/ a[1] < b[1]
    \/ /\ a[1] = b[1]
       /\ \/ a[2] = "+00:00" /\ b[2] = "."
          \/ a[2] = "." /\ b[2] = "." /\ a[3] < b[3]

\* With the oldest job first.
SortAscending(docs) ==
    LET after == [d \in docs |->
                     Cardinality({e \in docs : IsoLess(e.created_at, d.created_at)})]
    IN [i \in 1..Cardinality(docs) |-> CHOOSE d \in docs : after[d] = i - 1]

\* find().sort("created_at", -1): the documents, greatest created_at first;
\* a document's place is the number of documents with a greater created_at
\* (no two jobs of one Job Store share a created_at).
SortDescending(docs) ==
    LET before == [d \in docs |->
                      Cardinality({e \in docs : IsoLess(d.created_at, e.created_at)})]
    IN [i \in 1..Cardinality(docs) |-> CHOOSE d \in docs : before[d] = i - 1]

\* cursor.to_list(length): at most length documents from the front.
ToList(cursor, length) ==
    SubSeq(cursor, 1, IF Len(cursor) < length THEN Len(cursor) ELSE length)

\* PhotoRestoration(**restoration): pydantic reads created_at back from its
\* ISO string into a datetime.
ParseRestoration(d) ==
    [d EXCEPT !.created_at = IF @[2] = "." THEN 2 * @[1] + 1 ELSE 2 * @[1]]

\* get_restorations(), lines 754-761.
GetRestorations ==
    /\ LoopFree
    /\ \E restorations \in {ToList(SortDescending(db), PageSize)} :
           listed' = Set([i \in 1..Len(restorations) |->
                             ParseRestoration(restorations[i])])
    /\ UNCHANGED <<polled, download, extraction, connected, env, db, blobs, clock,
                   pc, file, restoration, result, call, response>>

\* A job stored by an earlier run of the server, created at reading k.
StoredJob(k) ==
    RestorationDict([PhotoRestoration(1000 + k, "photo.png", k) EXCEPT
                        !.status = "completed", !.processing_time = Set(3)])

\* The Job Store contents the list endpoint is followed on: every set of
\* jobs among six, and around the page size 99 to 102 jobs and 102 jobs of
\* 103 with one of the six newest or six oldest taken out.
Populations ==
    (SUBSET (1..6))
    \cup {1..n : n \in (PageSize - 1)..(PageSize + 2)}
    \cup {(1..(PageSize + 3)) \ {j} : j \in (1..3) \cup ((PageSize + 1)..(PageSize + 3))}

ListInit ==
    /\ env = Deployed
    /\ db \in {{StoredJob(k) : k \in population} : population \in Populations}
    /\ blobs = [f \in Filenames |-> Unset]
    /\ clock = 0
    /\ pc = [u \in Uploads |-> "idle"]
    /\ file = [u \in Uploads |-> NoFile]
    /\ restoration = [u \in Uploads |-> NoRestoration]
    /\ result = [u \in Uploads |-> NoResult]
    /\ call = [u \in Uploads |-> <<>>]
    /\ response = [u \in Uploads |-> NoResponse]
    /\ polled = [id \in Ids |-> NoResponse]
    /\ download = NoDownload
    /\ listed = Unset
    /\ extraction = NoExtraction
    /\ connected = [u \in Uploads |-> TRUE]

\* The list endpoint on a Job Store filled by earlier uploads.
ListNext == GetRestorations

ListSpec == ListInit /\ [][ListNext]_vars

\* ------------------------------------------------------------ extraction

\* A base64 text that does not decode: one character leaves a quad open.
B64Bad == <<0>>

\* A part of a content list: {"type": type, "image_url": {"url": url}}.
ImageUrlPart(b64) == [type |-> "image_url", data |-> TRUE, fields |-> <<b64>>]
BareUrlPart == [type |-> "image_url", data |-> TRUE, fields |-> <<>>]
TextPart == [type |-> "text", data |-> FALSE, fields |-> <<>>]
ListContent(body) == [kind |-> "list", body |-> body]

\* A media part of the SDK response.
Media(mime_type, data) == [mime_type |-> mime_type, data |-> data]

\* {"inline_data": {"data": <base64 text>}}
InlineData(b64) ==
    DictNode(<<[k |-> "inline_data", v |-> DictNode(<<[k |-> "data", v |-> StrNode(b64)]>>)]>>)

\* to_dict() of a chat-style document: choices[0].message.content, where a
\* text is a str and a part is a dict of strs (the characters of a str
\* outside inline_data.data are never read by _scan).
ChatTree(content) ==
    LET part == DictNode(<<[k |-> "type", v |-> StrNode(<<>>)],
                           [k |-> "image_url",
                            v |-> DictNode(<<[k |-> "url", v |-> StrNode(<<>>)]>>)]>>)
        node == IF content.kind = "list"
                THEN ListNode([i \in 1..Len(content.body) |-> part])
                ELSE StrNode(<<>>)
    IN DictNode(<<[k |-> "choices",
                   v |-> ListNode(<<DictNode(<<[k |-> "message",
                            v |-> DictNode(<<[k |-> "content", v |-> node]>>)]>>)>>)]>>)

\* One provider document as each extractor is handed it: the primary
\* adapter passes response.json(), of which the extractor reads
\* choices[0].message.content; the fallback adapter passes the SDK object,
\* of which the extractor reads media and to_dict().
ChatPayload(content, media) ==
    Extraction(Json(<<content>>), SdkResponse(media, ChatTree(content)), Unset)
TreePayload(media, tree) == Extraction(NoJson, SdkResponse(media, tree), Unset)

SeqsUpTo2(S) == {<<a>> : a \in S} \cup {<<a, b>> : a, b \in S}

\* The documents extraction is followed on, image in one of the four
\* shapes or in none: message texts and content lists of up to two
\* segments or parts, media lists of up to two parts, trees with the image
\* at the top, under another key, in a list, or as raw bytes, and documents
\* with an image in two shapes.
Payloads ==
    {ChatPayload(StrContent(body), <<>>) :
        body \in SeqsUpTo2({Plain, DataUri(<<>>), DataUri(B64Bad),
                            DataUri(B64One), DataUri(B64Two)})}
    \cup {ChatPayload(ListContent(parts), <<>>) :
        parts \in SeqsUpTo2({TextPart, BareUrlPart, ImageUrlPart(B64Bad),
                             ImageUrlPart(B64One), ImageUrlPart(B64Two)})}
    \cup {TreePayload(media, NoneNode) :
        media \in SeqsUpTo2({Media(None, BytesNode(<<1>>)), Media("image/png", StrNode(B64Bad)),
                             Media("image/png", StrNode(B64Two)),
                             Media("image/png", BytesNode(<<1>>))})}
    \cup {TreePayload(<<>>, tree) :
        tree \in {InlineData(B64One), InlineData(B64Bad),
                  DictNode(<<[k |-> "data", v |-> BytesNode(<<2>>)]>>),
                  DictNode(<<[k |-> "candidates", v |-> ListNode(<<InlineData(B64Bad),
                                                                   InlineData(B64Two)>>)]>>),
                  DictNode(<<[k |-> "inline_data",
                              v |-> DictNode(<<[k |-> "data", v |-> StrNode(B64Bad)]>>)],
                             [k |-> "parts", v |-> ListNode(<<InlineData(B64One)>>)]>>),
                  DictNode(<<[k |-> "content", v |-> ListNode(<<InlineData(B64One)>>)],
                             [k |-> "image", v |-> InlineData(B64Two)]>>),
                  DictNode(<<[k |-> "parts", v |-> ListNode(<<InlineData(B64One)>>)],
                             [k |-> "inline_data",
                              v |-> DictNode(<<[k |-> "data", v |-> StrNode(B64Two)]>>)]>>),
                  DictNode(<<[k |-> "text", v |-> NoneNode]>>)}}
    \cup {ChatPayload(StrContent(<<DataUri(B64One)>>), <<Media("image/png", BytesNode(<<2>>))>>),
          TreePayload(<<Media("image/png", BytesNode(<<1>>))>>, InlineData(B64Two))}

\* The extractor's name and what it returned.
Extracted(by, image) == [by |-> by, image |-> image]

\* The primary adapter runs its extractor on the document.
RunExtractOpenRouter ==
    /\ ~IsSet(extraction.out)
    /\ extraction' = [extraction EXCEPT
           !.out = Set(Extracted("openrouter", ExtractOpenRouter(extraction.json)))]
    /\ UNCHANGED <<polled, download, listed, connected, env, db, blobs, clock,
                   pc, file, restoration, result, call, response>>

\* The fallback adapter runs its extractor on the document.
RunExtractGemini ==
    /\ ~IsSet(extraction.out)
    /\ extraction' = [extraction EXCEPT
           !.out = Set(Extracted("gemini", ExtractGemini(extraction.response)))]
    /\ UNCHANGED <<polled, download, listed, connected, env, db, blobs, clock,
                   pc, file, restoration, result, call, response>>

ExtractInit ==
    /\ env = Deployed
    /\ db = {}
    /\ blobs = [f \in Filenames |-> Unset]
    /\ clock = 0
    /\ pc = [u \in Uploads |-> "idle"]
    /\ file = [u \in Uploads |-> NoFile]
    /\ restoration = [u \in Uploads |-> NoRestoration]
    /\ result = [u \in Uploads |-> NoResult]
    /\ call = [u \in Uploads |-> <<>>]
    /\ response = [u \in Uploads |-> NoResponse]
    /\ polled = [id \in Ids |-> NoResponse]
    /\ download = NoDownload
    /\ listed = Unset
    /\ extraction \in Payloads
    /\ connected = [u \in Uploads |-> TRUE]

\* Either adapter's extractor on one provider document.
ExtractNext == RunExtractOpenRouter \/ RunExtractGemini

ExtractSpec == ExtractInit /\ [][ExtractNext]_vars

\* --------------------------------------------------------------- claims

Terminal == {"completed", "failed"}

\* The stored documents of the job the handler of request u created.
JobsOf(u) == FindOne(db, Uuid4(u))

\* The file of a job in STORAGE_DIR.
BlobOf(d) == blobs[d.restored_filename]

\* The handler of u has come back from restore_photo_with_ai.
Entered(u) == result[u] # NoResult

\* The handler of u has passed validation and no credential is available.
NoCredential(u) ==
    /\ restoration[u] # NoRestoration
    /\ ~Truthy(file[u].api_key)
    /\ ~Truthy(env.OPENROUTER_API_KEY)
    /\ ~Truthy(env.GOOGLE_API_KEY)

\* The one invocation of the primary adapter by u was answered with status s.
PrimaryAnswered(u, s) ==
    /\ call[u] # <<>>
    /\ call[u][1].adapter = "openrouter"
    /\ call[u][1].kind = "http"
    /\ call[u][1].status_code = s

\* C1: a job is stored as 'processing' before the provider adapter is
\* invoked, and when the handler that entered the restoration is through,
\* whatever raised on the way, the stored job is 'completed' or 'failed'.
C1_EveryJobEndsTerminal ==
    \A u \in Uploads :
        /\ call[u] # <<>> => JobsOf(u) # {}
        /\ pc[u] = "responded" /\ Entered(u) =>
               /\ JobsOf(u) # {}
               /\ \A d \in JobsOf(u) : d.status \in Terminal

\* C2: the stored status only moves from 'processing' to 'completed' or
\* 'failed', and a stored job that is 'completed' or 'failed' is never
\* written again.
C2_StatusMonotonic ==
    [][\A d \in db : \E e \in db' :
          /\ e.id = d.id
          /\ d.status \in Terminal => e = d
          /\ e.status # d.status => d.status = "processing" /\ e.status \in Terminal]_vars

\* C3: every stored job is completed with processing_time and no
\* error_message, or failed with error_message and no processing_time, or
\* processing with neither.
C3_RecordShape ==
    \A d \in db :
        \/ d.status = "completed" /\ IsSet(d.processing_time) /\ ~IsSet(d.error_message)
        \/ d.status = "failed" /\ IsSet(d.error_message) /\ ~IsSet(d.processing_time)
        \/ d.status = "processing" /\ ~IsSet(d.processing_time) /\ ~IsSet(d.error_message)

\* C4 (as claimed): the file of a job exists if and only if the job is
\* stored as 'completed'.
C4_BlobIffCompleted ==
    \A d \in db : IsSet(BlobOf(d)) <=> d.status = "completed"

\* C4 (amended): a job stored as 'completed' has its file, and a file exists
\* only once the handler of that job has passed its file write.
C4_CompletedHasBlob ==
    /\ \A d \in db : d.status = "completed" => IsSet(BlobOf(d))
    /\ \A u \in Uploads :
          IsSet(blobs[RestoredFilename(Uuid4(u))]) =>
              pc[u] \in {"complete", "fail", "responded", "done"}

C4_Witness ==
    \E d \in db : d.status = "completed" /\ IsSet(BlobOf(d)) /\ BlobOf(d) # Set(<<>>)

\* C5: with no credential available an otherwise valid upload inserts no
\* job and the caller gets the configuration error, not a job record.
C5_NoCredentialRejected ==
    \A u \in Uploads :
        NoCredential(u) =>
            /\ JobsOf(u) = {}
            /\ pc[u] = "responded" => response[u] = ErrorResponse(400, NoKeyDetail)

\* C6: with no credential available the upload makes no provider request
\* and, once its handler is through, leaves no job in 'processing'.
C6_NoCredentialNoDanglingJob ==
    \A u \in Uploads :
        NoCredential(u) =>
            /\ call[u] = <<>>
            /\ pc[u] = "responded" /\ Entered(u) =>
                   \A d \in JobsOf(u) : d.status # "processing"

\* C7: the adapter that runs is the primary one whenever a caller key or
\* OPENROUTER_API_KEY is available, else the fallback one when
\* GOOGLE_API_KEY is available, else none (NoCredential).
C7_SelectionByPriority ==
    \A u \in Uploads :
        Entered(u) =>
            LET primary == Truthy(file[u].api_key) \/ Truthy(env.OPENROUTER_API_KEY)
                fallback == Truthy(env.GOOGLE_API_KEY)
                used == {call[u][i].adapter : i \in 1..Len(call[u])}
            IN /\ primary => used = {"openrouter"}
               /\ ~primary /\ fallback => used = {"google"}
               /\ ~primary /\ ~fallback =>
                      /\ used = {}
                      /\ result[u].exc = HTTPException(400, NoKeyDetail)

C7_Witness ==
    \E u \in Uploads :
        /\ Entered(u)
        /\ file[u].api_key = ""
        /\ Truthy(env.OPENROUTER_API_KEY) /\ Truthy(env.GOOGLE_API_KEY)
        /\ call[u] # <<>>
        /\ call[u][1].adapter = "openrouter"
        /\ call[u][1].key = env.OPENROUTER_API_KEY

\* C8: an upload invokes at most one adapter, which sends at most one
\* request; after a failure of the primary adapter nothing else is called.
C8_OneAdapterOneRequest ==
    \A u \in Uploads :
        /\ Len(call[u]) <= 1
        /\ \A i \in 1..Len(call[u]) : call[u][i].requests <= 1

C8_Witness ==
    \E u \in Uploads :
        /\ pc[u] = "responded"
        /\ Truthy(env.GOOGLE_API_KEY)
        /\ PrimaryAnswered(u, 429)
        /\ Len(call[u]) = 1

\* C9: when the primary adapter got HTTP 429, the outcome is the quota error
\* (429) and, once the handler is through, the job is stored as 'failed'
\* with the quota message.
C9_QuotaFailsJob ==
    \A u \in Uploads :
        PrimaryAnswered(u, 429) =>
            /\ result[u].exc = HTTPException(429, QuotaDetail)
            /\ pc[u] = "responded" =>
                   /\ JobsOf(u) # {}
                   /\ \A d \in JobsOf(u) :
                          /\ d.status = "failed"
                          /\ d.error_message = Set(Str(HTTPException(429, QuotaDetail)))

\* C10: when the primary adapter got HTTP 401 or HTTP 403, its outcome is
\* the invalid-credential error (403).
C10_AuthFailureIsInvalidCredential ==
    \A u \in Uploads :
        pc[u] = "fail" /\ (PrimaryAnswered(u, 401) \/ PrimaryAnswered(u, 403)) =>
            result[u].exc = HTTPException(403, InvalidKeyDetail)

\* The one invocation of u went to the primary adapter and got an HTTP response.
PrimaryHttp(u) ==
    /\ call[u] # <<>>
    /\ call[u][1].adapter = "openrouter"
    /\ call[u][1].kind = "http"

\* detail=f"OpenRouter API error: {error_detail}"
ProviderErrorOf(text) == HTTPException(502, <<"OpenRouter API error: ", text>>)

\* C11: a response of the primary adapter's request with a status outside
\* 2xx that is not a quota or authentication status (429, 401, 403) gives
\* ProviderError (502) carrying the response text, and a response with a 2xx
\* status is never turned into ProviderError.
C11_StatusClassification ==
    \A u \in Uploads :
        PrimaryHttp(u) /\ Entered(u) =>
            LET s == call[u][1].status_code
                text == call[u][1].reply.text
            IN /\ s \notin 200..299 /\ s \notin {429, 401, 403} =>
                      result[u].exc = ProviderErrorOf(text)
               /\ s \in 200..299 => result[u].exc # ProviderErrorOf(text)

\* C12: when the primary adapter's request failed at transport level, the
\* outcome is the network error (502) naming the transport error and, once
\* the handler is through, the job is stored as 'failed' with that message.
C12_TransportFailsJob ==
    \A u \in Uploads :
        call[u] # <<>> /\ call[u][1].kind = "transport" =>
            LET e == HTTPException(502, <<"Network error connecting to OpenRouter: ",
                                          call[u][1].reply.text>>)
            IN /\ result[u].exc = e
               /\ pc[u] = "responded" =>
                      /\ JobsOf(u) # {}
                      /\ \A d \in JobsOf(u) :
                             d.status = "failed" /\ d.error_message = Set(Str(e))

\* C13: when the provider answered with HTTP success and the payload holds
\* no image the extractor can get out, the adapter's outcome is
\* NoImageGenerated (502) and no other error, for the primary and for the
\* fallback adapter.
C13_NoImageIsNoImageGenerated ==
    \A u \in Uploads :
        Entered(u) /\ call[u] # <<>> =>
            LET c == call[u][1]
            IN /\ c.adapter = "openrouter" /\ c.kind = "http" /\ c.status_code = 200
                  /\ ~TruthyBytes(ExtractOpenRouter(c.reply.json))
                  => result[u].exc = HTTPException(502, NoImageDetail)
               /\ c.adapter = "google" /\ c.kind = "response"
                  /\ ~TruthyBytes(ExtractGemini(c.reply.response))
                  /\ ~TruthyBytes(ExtractGeminiDict(c.reply.response.dict))
                  => result[u].exc = HTTPException(502, GeminiNoImageDetail)

\* C14: once the upload flow of a created job is over and the job did not
\* complete, the stored job is 'failed' with a non-empty error_message.
C14_FailureIsRecorded ==
    \A u \in Uploads :
        pc[u] \in {"responded", "done"} =>
            \A d \in JobsOf(u) :
                \/ d.status = "completed"
                \/ /\ d.status = "failed"
                   /\ IsSet(d.error_message)
                   /\ d.error_message[1] # <<>>

\* A step in which the download handler took a request and answered it.
DownloadServed == download.pc \in {"idle", "done"} /\ download' # download

\* C15: a download request is answered by the stored status: 404 for an id
\* with no job, 400 for a job that is not 'completed', 404 for a
\* 'completed' job whose file is missing, and the response streams the
\* job's file (200) if and only if the job is 'completed' and its file exists.
C15_DownloadByStatus ==
    [][DownloadServed =>
          LET found == FindOne(db, download'.id)
              ready == \E d \in found :
                           d.status = "completed" /\ IsSet(blobs[d.restored_filename])
          IN /\ found = {} =>
                    /\ download'.status_code = 404
                    /\ download'.detail = <<"Restoration not found">>
             /\ \A d \in found :
                    /\ d.status \in {"processing", "failed"} =>
                           /\ download'.status_code = 400
                           /\ download'.detail = <<"Photo restoration not completed yet">>
                    /\ d.status = "completed" /\ ~IsSet(blobs[d.restored_filename]) =>
                           /\ download'.status_code = 404
                           /\ download'.detail = <<"Restored image file not found">>
                    /\ ready => download'.path = d.restored_filename
             /\ download'.status_code = 200 <=> ready
             /\ download'.pc = "streaming" <=> ready]_vars

C15_Witness ==
    /\ download.pc = "done"
    /\ download.status_code = 404
    /\ download.detail = <<"Restored image file not found">>
    /\ \E d \in FindOne(db, download.id) : d.status = "completed"

\* C16: a download request for a job that is not 'completed' is answered
\* without any call on the Blob Store (no exists(), no open()).
C16_NotReadyBeforeBlob ==
    [][DownloadServed =>
          \A d \in FindOne(db, download'.id) :
              d.status # "completed" =>
                  /\ download'.blob_calls = <<>>
                  /\ download'.pc = "done"]_vars

C16_Witness ==
    /\ download.pc = "done"
    /\ download.status_code = 400
    /\ download.blob_calls = <<>>
    /\ \E d \in FindOne(db, download.id) :
           d.status = "processing" /\ IsSet(blobs[d.restored_filename])

C18_GetIsIdempotent ==
    [][/\ \A id \in Ids :
             polled[id].status_code = 200 /\ polled[id].body.status \in Terminal =>
                 polled'[id] = polled[id]
       /\ polled' # polled => db' = db]_vars

\* The file part of u has an image content type.
IsImage(u) == file[u].content_type # <<>> /\ Head(file[u].content_type) = "image/"

\* The handler of u turned the request away with the 400 of this detail.
Rejected(u, detail) ==
    /\ pc[u] = "responded"
    /\ response[u] = ErrorResponse(400, detail)
    /\ restoration[u] = NoRestoration

\* The request of u passed validation: its job object exists and its
\* response, if any, is not a 400.
Accepted(u) ==
    /\ restoration[u] # NoRestoration
    /\ pc[u] = "responded" => response[u].status_code # 400

\* C19: with an image content type, a body of 99 bytes is rejected as too
\* small, bodies of 100 bytes and of 10*1024*1024 bytes are accepted, and a
\* body of 10*1024*1024 + 1 bytes is rejected as too large.
C19_SizeBoundaries ==
    \A u \in Uploads :
        file[u] # NoFile /\ IsImage(u) =>
            /\ file[u].size = 99 => Rejected(u, <<"Image file is too small or corrupted">>)
            /\ file[u].size = 100 => Accepted(u)
            /\ file[u].size = 10 * 1024 * 1024 => Accepted(u)
            /\ file[u].size = 10 * 1024 * 1024 + 1 =>
                   Rejected(u, <<"Image file is too large (max 10MB)">>)

C19_Witness ==
    \E u \in Uploads :
        /\ IsImage(u)
        /\ file[u].size = 10 * 1024 * 1024
        /\ pc[u] = "responded"
        /\ response[u].status_code = 200
        /\ response[u].body.status = "completed"

\* The form of u is invalid input: no image content type, or a body under
\* 100 bytes, or a body over 10 MiB.
InvalidInput(form) ==
    \/ form.content_type = <<>>
    \/ Head(form.content_type) # "image/"
    \/ form.size < 100
    \/ form.size > 10 * 1024 * 1024

\* C20: an upload with invalid input is answered 400 in the step that
\* receives it, a step that leaves the Job Store and the Blob Store as they
\* were; no job of it is ever stored, no file of it written and no provider
\* request made for it.
C20_InvalidInputRejectedFirst ==
    /\ [](\A u \in Uploads :
             file[u] # NoFile /\ InvalidInput(file[u]) =>
                 /\ pc[u] = "responded"
                 /\ response[u].status_code = 400
                 /\ JobsOf(u) = {}
                 /\ ~IsSet(blobs[RestoredFilename(Uuid4(u))])
                 /\ call[u] = <<>>)
    /\ [][\A u \in Uploads :
             pc[u] = "idle" /\ pc'[u] # "idle" /\ InvalidInput(file'[u]) =>
                 db' = db /\ blobs' = blobs /\ call' = call]_vars

C20_Witness ==
    \E u \in Uploads :
        /\ pc[u] = "responded"
        /\ file[u].content_type = <<>>
        /\ response[u] = ErrorResponse(400, <<"File must be an image">>)
        /\ JobsOf(u) = {}

\* C21: an upload with an image content type and a body of at most 10 MiB,
\* the 90-byte PNG of the test included, is answered 200 with the job
\* record carrying its id.
C21_EveryImageAccepted ==
    \A u \in Uploads :
        /\ file[u] # NoFile
        /\ IsImage(u)
        /\ file[u].size <= 10 * 1024 * 1024
        /\ pc[u] = "responded"
        => /\ response[u].status_code = 200
           /\ response[u].body.id = Uuid4(u)

\* C22: a status request is answered 404 exactly when the Job Store holds
\* no job of that id, and otherwise with the stored record as it is at that
\* moment; a stored job never goes away, so 404 means the job was never
\* created.
C22_StatusIsStoredRecord ==
    [][/\ \A id \in Ids :
             polled'[id] # polled[id] =>
                 /\ polled'[id].status_code = 404 <=> FindOne(db, id) = {}
                 /\ polled'[id].status_code = 404 =>
                        polled'[id] = ErrorResponse(404, <<"Restoration not found">>)
                 /\ \A d \in FindOne(db, id) : polled'[id] = JobResponse(d)
       /\ \A d \in db : FindOne(db', d.id) # {}]_vars

C22_Witness ==
    \E id \in Ids :
        /\ polled[id].status_code = 200
        /\ polled[id].body.status = "failed"
        /\ polled[id].body \in db

\* C23: the list endpoint returns min(n, 100) of the n stored jobs, newest
\* first, and they are the most recently created ones: every job left out
\* is older than every job returned.
C23_ListNewestFirstCapped ==
    IsSet(listed) =>
        LET out == listed[1]
            n == Cardinality(db)
            returned == {out[i].id : i \in 1..Len(out)}
        IN /\ Len(out) = IF n < 100 THEN n ELSE 100
           /\ \A i \in 1..Len(out) : RestorationDict(out[i]) \in db
           /\ \A i, j \in 1..Len(out) : i < j => out[i].created_at > out[j].created_at
           /\ \A d \in db :
                  d.id \notin returned =>
                      \A i \in 1..Len(out) :
                          ParseRestoration(d).created_at < out[i].created_at

C23_Witness ==
    /\ IsSet(listed)
    /\ Cardinality(db) = 102
    /\ Len(listed[1]) = 100
    /\ listed[1][1].created_at = 103
    /\ listed[1][100].created_at = 3

\* The primary adapter's extractor has run on a message text that holds at
\* least one data-URI with a payload, in a document without media parts.
TextExtracted ==
    /\ IsSet(extraction.out)
    /\ extraction.out[1].by = "openrouter"
    /\ IsSet(extraction.json.choices)
    /\ extraction.json.choices[1][1].kind = "str"
    /\ extraction.response.media = <<>>
    /\ \E i \in 1..Len(extraction.json.choices[1][1].body) :
           /\ extraction.json.choices[1][1].body[i].uri
           /\ extraction.json.choices[1][1].body[i].b64 # <<>>

\* The payload of the first data-URI of the text under extraction.
FirstDataUri ==
    LET body == extraction.json.choices[1][1].body
        first == CHOOSE i \in 1..Len(body) :
                     /\ body[i].uri /\ body[i].b64 # <<>>
                     /\ \A j \in 1..(i - 1) : ~(body[j].uri /\ body[j].b64 # <<>>)
    IN body[first].b64

\* C24 (as stated): for a message text holding one or more data-URIs,
\* extraction succeeds and returns the decoded payload of the first one.
C24_TextPathSucceeds ==
    TextExtracted =>
        /\ extraction.out[1].image # Unset
        /\ extraction.out[1].image = Set(b64decode(FirstDataUri).value)

\* C24 (amended): when the payload of the first data-URI of the text is
\* decodable base64, extraction returns its decoded bytes, whatever
\* data-URIs follow it.
C24_FirstDecodableUriIsReturned ==
    TextExtracted /\ b64decode(FirstDataUri).ok =>
        extraction.out[1].image = Set(b64decode(FirstDataUri).value)

C24_Witness ==
    /\ TextExtracted
    /\ extraction.json.choices[1][1].body = <<DataUri(B64Two), DataUri(B64One)>>
    /\ extraction.out[1].image = Set(<<2>>)

\* The image of a document by shape, in the order the shapes are to be
\* tried: media part, data-URI in the message text, image_url part of a
\* content list, image nested in the tree.
ShapeImages(e) ==
    LET kind == IF IsSet(e.json.choices) /\ e.json.choices[1] # <<>>
                THEN e.json.choices[1][1].kind ELSE "none"
    IN << ScanMedia(e.response.media).out,
          IF kind = "str" THEN ExtractOpenRouter(e.json) ELSE Unset,
          IF kind = "list" THEN ExtractOpenRouter(e.json) ELSE Unset,
          Scan(e.response.dict) >>

\* The first shape that holds an image wins.
RECURSIVE FirstMatch(_)
FirstMatch(images) ==
    IF images = <<>> THEN Unset
    ELSE IF TruthyBytes(Head(images)) THEN Head(images)
    ELSE FirstMatch(Tail(images))

\* C25: whichever adapter's extractor received the document, it returns the
\* image of the first of the four shapes that holds one.
C25_ExtractionIsProviderIndependent ==
    IsSet(extraction.out) /\ TruthyBytes(FirstMatch(ShapeImages(extraction))) =>
        extraction.out[1].image = FirstMatch(ShapeImages(extraction))

\* b64 decodes to an image (at least one byte).
Decodes(b64) == b64decode(b64).ok /\ b64decode(b64).value # <<>>

\* Some inline_data.data text or data bytes anywhere in the tree is an image.
RECURSIVE TreeHoldsImage(_)
TreeHoldsImage(node) ==
    IF node.t = "dict"
    THEN \/ /\ GetItem(node.items, "inline_data").t = "dict"
            /\ GetItem(GetItem(node.items, "inline_data").items, "data").t = "str"
            /\ Decodes(GetItem(GetItem(node.items, "inline_data").items, "data").v)
         \/ /\ GetItem(node.items, "data").t = "bytes"
            /\ GetItem(node.items, "data").v # <<>>
         \/ \E i \in 1..Len(node.items) : TreeHoldsImage(node.items[i].v)
    ELSE IF node.t = "list"
    THEN \E i \in 1..Len(node.items) : TreeHoldsImage(node.items[i])
    ELSE FALSE

\* Some candidate location of the document, among those the extractor
\* that ran looks at, decodes to an image.
SomeCandidateDecodes ==
    LET e == extraction
        content == IF IsSet(e.json.choices) /\ e.json.choices[1] # <<>>
                   THEN e.json.choices[1][1] ELSE NullContent
    IN IF e.out[1].by = "openrouter"
       THEN \/ /\ content.kind = "str"
               /\ \E i \in 1..Len(content.body) :
                      content.body[i].uri /\ Decodes(content.body[i].b64)
            \/ /\ content.kind = "list"
               /\ \E i \in 1..Len(content.body) :
                      /\ content.body[i].type = "image_url"
                      /\ content.body[i].data
                      /\ content.body[i].fields # <<>>
                      /\ Decodes(content.body[i].fields[1])
       ELSE \/ \E i \in 1..Len(e.response.media) :
                   /\ Truthy(e.response.media[i].mime_type)
                   /\ \/ /\ e.response.media[i].data.t = "bytes"
                         /\ e.response.media[i].data.v # <<>>
                      \/ /\ e.response.media[i].data.t = "str"
                         /\ Decodes(e.response.media[i].data.v)
            \/ TreeHoldsImage(e.response.dict)

\* C26: a candidate that fails to decode never ends extraction: the
\* extractor returns no image only when no candidate of the document
\* decodes to one.
C26_DecodeFailureNeverEndsExtraction ==
    IsSet(extraction.out) /\ ~TruthyBytes(extraction.out[1].image) =>
        ~SomeCandidateDecodes

\* The primary adapter of u got HTTP 200 whose message text embeds a
\* data-URI that decodes to an image.
ImageReply(u) ==
    /\ PrimaryAnswered(u, 200)
    /\ IsSet(call[u][1].reply.json.choices)
    /\ call[u][1].reply.json.choices[1] # <<>>
    /\ call[u][1].reply.json.choices[1][1].kind = "str"
    /\ \E i \in 1..Len(call[u][1].reply.json.choices[1][1].body) :
           /\ call[u][1].reply.json.choices[1][1].body[i].uri
           /\ Decodes(call[u][1].reply.json.choices[1][1].body[i].b64)

\* The decoded payload of the first data-URI of that text.
ReplyImage(u) ==
    b64decode(FindAll(call[u][1].reply.json.choices[1][1].body)[1]).value

\* The stored job of u is 'completed' with its processing time, and its
\* blob is the decoded payload.
StoredCompleted(u) ==
    /\ JobsOf(u) # {}
    /\ \A d \in JobsOf(u) :
           /\ d.status = "completed"
           /\ IsSet(d.processing_time)
           /\ BlobOf(d) = Set(ReplyImage(u))

C28_ProviderCallYields ==
    \A u \in Uploads :
        pc[u] = "calling" => ENABLED (\E id \in Ids : GetRestorationStatus(id))

\* C29: the record and blob of a job are written only by the handler that
\* created the job: one insert, then at most one update, which takes the
\* record from 'processing' to a terminal status.
C29_JobWrittenOnlyByItsFlow ==
    [][\A id \in Ids :
          /\ FindOne(db', id) # FindOne(db, id) =>
                 \E u \in Uploads :
                     /\ restoration[u].id = id
                     /\ pc'[u] # pc[u]
                     /\ IF FindOne(db, id) = {} THEN pc[u] = "insert"
                        ELSE /\ pc[u] \in {"complete", "fail"}
                             /\ \A d \in FindOne(db, id) : d.status = "processing"
          /\ blobs'[RestoredFilename(id)] # blobs[RestoredFilename(id)] =>
                 \E u \in Uploads :
                     /\ restoration[u].id = id
                     /\ pc[u] = "write"
                     /\ pc'[u] # pc[u]]_vars

\* C30: a caller that has gone away does not stop the upload: once its
\* handler is through, the job is 'completed' or 'failed'.
C30_DisconnectedJobStillEnds ==
    \A u \in Uploads :
        ~connected[u] /\ pc[u] = "responded" =>
            /\ JobsOf(u) # {}
            /\ \A d \in JobsOf(u) : d.status \in Terminal

\* C31: every provider call returns: an upload that has entered its
\* provider call eventually gets its response, even when the provider
\* never answers.
C31_ProviderCallReturns ==
    \A u \in Uploads : (pc[u] = "calling") ~> (pc[u] \in {"responded", "done"})

\* C32: a step that changes a stored job is the completion (status and
\* processing_time) or the failure (status and error_message) and nothing
\* else: id, original_filename, restored_filename and created_at of a
\* stored job never change, and no job leaves the Job Store.
C32_UpdatesTouchOnlyTheirFields ==
    [][\A d \in db : \E e \in db' :
          /\ e.id = d.id
          /\ e.original_filename = d.original_filename
          /\ e.restored_filename = d.restored_filename
          /\ e.created_at = d.created_at
          /\ e # d =>
                 \/ e.status = "completed" /\ e.error_message = d.error_message
                 \/ e.status = "failed" /\ e.processing_time = d.processing_time]_vars

C32_Witness ==
    \E u \in Uploads : \E d, e \in JobsOf(u) :
        /\ pc[u] = "responded"
        /\ d.status = "failed" /\ IsSet(d.error_message)
        /\ e.status = "failed" /\ IsSet(e.processing_time)
        /\ d.created_at = IsoFormat(restoration[u].created_at)
        /\ d.original_filename = restoration[u].original_filename
        /\ d.original_filename # None

C34_BlobWrittenBeforeCompleted ==
    /\ [](\A d \in db : d.status = "completed" => TruthyBytes(BlobOf(d)))
    /\ [][\A u \in Uploads :
              (\E e \in FindOne(db', Uuid4(u)) :
                   e.status = "completed" /\ e \notin db) =>
                  /\ pc[u] = "complete"
                  /\ TruthyBytes(result[u].data)
                  /\ blobs[RestoredFilename(Uuid4(u))] = result[u].data
                  /\ blobs' = blobs]_vars

C34_Witness ==
    \E u \in Uploads : \E d \in db :
        /\ pc[u] = "done"
        /\ restoration[u] = NoRestoration
        /\ d.id = Uuid4(u)
        /\ d.status = "completed"
        /\ BlobOf(d) = Set(<<1>>)

\* C35: a job record returned by upload_photo carries the status,
\* processing_time and error_message of the record the Job Store holds at
\* that moment.
C35_ReturnedRecordIsStoredRecord ==
    \A u \in Uploads :
        pc[u] = "responded" /\ response[u].status_code = 200 =>
            /\ JobsOf(u) # {}
            /\ \A d \in JobsOf(u) :
                   /\ d.status = response[u].body.status
                   /\ d.processing_time = response[u].body.processing_time
                   /\ d.error_message = response[u].body.error_message

\* C36: a non-empty key of the caller goes to the primary adapter, as it
\* is, whatever the environment holds; the fallback adapter only ever gets
\* the environment's Google key; an empty key of the caller selects as no
\* key does.
C36_CallerKeyIsPrimaryOnly ==
    \A u \in Uploads :
        Entered(u) =>
            /\ Truthy(file[u].api_key) =>
                   /\ call[u] # <<>>
                   /\ \A i \in 1..Len(call[u]) :
                          /\ call[u][i].adapter = "openrouter"
                          /\ call[u][i].key = file[u].api_key
            /\ \A i \in 1..Len(call[u]) :
                   call[u][i].adapter = "google" =>
                       /\ call[u][i].key = env.GOOGLE_API_KEY
                       /\ ~Truthy(file[u].api_key)
            /\ file[u].api_key = "" =>
                   /\ SelectProvider("", env) = SelectProvider(None, env)
                   /\ \A i \in 1..Len(call[u]) :
                          call[u][i].key \in {env.OPENROUTER_API_KEY, env.GOOGLE_API_KEY}

C36_Witness ==
    \E u \in Uploads :
        /\ Entered(u)
        /\ file[u].api_key = "sk-caller"
        /\ env.OPENROUTER_API_KEY = "sk-or-env"
        /\ env.GOOGLE_API_KEY = "g-env"
        /\ Len(call[u]) = 1
        /\ call[u][1].adapter = "openrouter"
        /\ call[u][1].key = "sk-caller"

\* The provider's answer to u carried an image of no bytes.
EmptyImageReply(u) ==
    /\ call[u] # <<>>
    /\ \/ /\ call[u][1].adapter = "openrouter"
          /\ call[u][1].kind = "http"
          /\ call[u][1].status_code = 200
          /\ ExtractOpenRouter(call[u][1].reply.json) = Set(<<>>)
       \/ /\ call[u][1].adapter = "google"
          /\ call[u][1].kind = "response"
          /\ Scan(call[u][1].reply.response.dict) = Set(<<>>)

\* C37: an adapter that succeeds returns at least one byte: an image of no
\* bytes is 'no image'; so no job is 'completed' with an empty file.
C37_NoEmptyImageCompletes ==
    /\ \A u \in Uploads :
           /\ IsSet(result[u].data) => result[u].data[1] # <<>>
           /\ EmptyImageReply(u) /\ Entered(u) =>
                  /\ ~IsSet(result[u].data)
                  /\ result[u].exc \in {HTTPException(502, NoImageDetail),
                                        HTTPException(502, GeminiNoImageDetail)}
    /\ \A d \in db : d.status = "completed" =>
           IsSet(BlobOf(d)) /\ BlobOf(d)[1] # <<>>

C37_Witness ==
    \E u \in Uploads : \E d \in JobsOf(u) :
        /\ EmptyImageReply(u)
        /\ call[u][1].adapter = "google"
        /\ pc[u] = "responded"
        /\ d.status = "failed"
        /\ ~IsSet(BlobOf(d))

\* The fallback adapter of u was called and its SDK call raised.
GeminiRaised(u) ==
    /\ Entered(u)
    /\ call[u] # <<>>
    /\ call[u][1].adapter = "google"
    /\ call[u][1].kind = "exception"

\* The message carries a quota marker, or a credential marker.
QuotaMarked(m) ==
    \E i \in 1..Len(m) : m[i] \in {"429", "RESOURCE_EXHAUSTED", "quota", "Quota", "QUOTA"}
CredentialMarked(m) ==
    \E i \in 1..Len(m) :
        m[i] \in {"403", "invalid", "INVALID", "Invalid",
                  "unauthorized", "Unauthorized", "UNAUTHORIZED"}

\* C38: the fallback adapter classifies an exception of the SDK by its
\* text: quota markers first (429), then credential markers (403), then
\* the provider error (502) carrying the text; an error the adapter raised
\* itself, already classified, passes unchanged.
C38_FallbackClassification ==
    \A u \in Uploads :
        /\ GeminiRaised(u) =>
               LET m == call[u][1].reply.text
               IN result[u].exc =
                      IF QuotaMarked(m) THEN HTTPException(429, GeminiQuotaDetail)
                      ELSE IF CredentialMarked(m) THEN HTTPException(403, GeminiInvalidKeyDetail)
                      ELSE HTTPException(502, <<"Gemini API error: ">> \o m
                               \o <<". Please try again or check your API key.">>)
        /\ Entered(u) /\ call[u] # <<>> /\ call[u][1].adapter = "google" =>
               /\ call[u][1].kind = "import" =>
                      result[u].exc = HTTPException(500,
                          <<"google-genai not available: ">> \o call[u][1].reply.text)
               /\ call[u][1].kind = "response" /\ ~IsSet(result[u].data) =>
                      result[u].exc = HTTPException(502, GeminiNoImageDetail)

C38_Witness ==
    \E u \in Uploads : \E d \in JobsOf(u) :
        /\ GeminiRaised(u)
        /\ call[u][1].reply.text = <<"Unauthorized", "Quota">>
        /\ result[u].exc.status_code = 429
        /\ d.status = "failed"
        /\ d.error_message = Set(Str(HTTPException(429, GeminiQuotaDetail)))

\* The first image of a tree in depth-first order: the node's own
\* inline_data or data when it is an image, else the first image under its
\* values or items, in iteration order.
RECURSIVE FirstImage(_)
RECURSIVE FirstImageAmong(_, _)
FirstImageAmong(items, isDict) ==
    IF items = <<>> THEN Unset
    ELSE LET found == FirstImage(IF isDict THEN Head(items).v ELSE Head(items))
         IN IF TruthyBytes(found) THEN found ELSE FirstImageAmong(Tail(items), isDict)

FirstImage(node) ==
    IF node.t = "dict"
    THEN LET inline == GetItem(node.items, "inline_data")
             text == IF inline.t = "dict" THEN GetItem(inline.items, "data") ELSE NoneNode
             raw == GetItem(node.items, "data")
         IN IF text.t = "str" /\ Decodes(text.v) THEN Set(b64decode(text.v).value)
            ELSE IF raw.t = "bytes" /\ raw.v # <<>> THEN Set(raw.v)
            ELSE FirstImageAmong(node.items, TRUE)
    ELSE IF node.t = "list" THEN FirstImageAmong(node.items, FALSE)
    ELSE Unset

\* C39: the fallback extractor returns the image of the first media part
\* that yields bytes, and without one the first non-empty image of the
\* tree in depth-first order.
C39_FallbackScanOrder ==
    IsSet(extraction.out) /\ extraction.out[1].by = "gemini" =>
        LET media == ScanMedia(extraction.response.media)
            first == IF media.found THEN media.out
                     ELSE FirstImage(extraction.response.dict)
        IN IF TruthyBytes(first)
           THEN extraction.out[1].image = first
           ELSE ~TruthyBytes(extraction.out[1].image)

====
